---- MODULE Spec2Model ----
(***************************************************************************)
(* CARboncycle (src/main.py): the commute-data resolution and emissions    *)
(* engine of the dashboard.  Three specifications share this module:       *)
(*   SpecDt  the schedule resolver (_get_dt, _next_weekday, strftime)      *)
(*   SpecEm  the emissions calculator (_calculate_emissions and the unit   *)
(*           handling of _trigger_update)                                  *)
(*   Spec    the update pass (_trigger_update, _format_summary), the       *)
(*           in-memory cache self.locs and the pickle file locs.pkl        *)
(***************************************************************************)
EXTENDS Integers, Sequences, FiniteSets, TLC

VARIABLES
    now,        \* SpecDt: the current moment, datetime.today()
    dtArgs,     \* SpecDt: <<(day_of_week, time)>> last passed to _get_dt, <<>> before
    dt,         \* SpecDt: <<the datetime _get_dt returned>>, <<>> before
    emArgs,     \* SpecEm: the route sample and the automobile widgets' values
    emOut,      \* SpecEm: <<the quantity _calculate_emissions returned>>, <<>> before
    up,         \* Spec: view() has completed and the widgets are served
    widgets,    \* Spec: the values of the address and weekday widgets
    car,        \* Spec: the automobile widgets, as the emissions they give each sample
    locs,       \* Spec: self.locs, loc_label -> (day_label -> (distance, idle_time))
    file,       \* Spec: the pickle file CACHED_FP: whether it exists, and its content
    panes,      \* Spec: what map_html, emission_summary and weekday_summary show
    lastPass,   \* Spec: what the last run of _trigger_update did (history)
    fetched,    \* Spec: the keys _call_gmap has returned a sample for in this process (history)
    counts      \* Spec: passes and file writes of this process, and processes so far (history)

dtVars == <<now, dtArgs, dt>>
emVars == <<emArgs, emOut>>
appVars == <<up, widgets, car, locs, file, panes, lastPass, fetched, counts>>
vars == <<dtVars, emVars, appVars>>

(***************************************************************************)
(* Strings the code formats and parses are sequences of one-character      *)
(* strings, so that str.split, int() and the format specs are computed.    *)
(***************************************************************************)
DigitChar == <<"0", "1", "2", "3", "4", "5", "6", "7", "8", "9">>

\* f"{n:02d}", and strftime's zero-padded two-digit fields
Fmt02(n) == IF n < 10 THEN <<"0", DigitChar[n + 1]>>
            ELSE <<DigitChar[(n \div 10) + 1], DigitChar[(n % 10) + 1]>>

DigitVal(c) == CHOOSE d \in 0..9 : DigitChar[d + 1] = c

\* int(s) for a string of decimal digits
RECURSIVE ParseInt(_)
ParseInt(s) == IF s = <<>> THEN 0
               ELSE 10 * ParseInt(SubSeq(s, 1, Len(s) - 1)) + DigitVal(s[Len(s)])

\* s.split(sep) for a one-character separator
RECURSIVE SplitFrom(_, _, _)
SplitFrom(s, sep, cur) ==
    IF s = <<>> THEN <<cur>>
    ELSE IF s[1] = sep THEN <<cur>> \o SplitFrom(Tail(s), sep, <<>>)
    ELSE SplitFrom(Tail(s), sep, Append(cur, s[1]))

Split(s, sep) == SplitFrom(s, sep, <<>>)

DAYS_OF_WEEK ==
    [d \in {"Monday", "Tuesday", "Wednesday", "Thursday", "Friday", "Saturday", "Sunday"} |->
        CASE d = "Monday" -> 0
          [] d = "Tuesday" -> 1
          [] d = "Wednesday" -> 2
          [] d = "Thursday" -> 3
          [] d = "Friday" -> 4
          [] d = "Saturday" -> 5
          [] d = "Sunday" -> 6]

\* the keys of DAYS_OF_WEEK in the dict's order
DayNames == <<"Monday", "Tuesday", "Wednesday", "Thursday", "Friday", "Saturday", "Sunday">>

\* one label of HOURS_OF_DAY: f"{hh:02d}:{mm:02d} {ap}"
HourLabel(hh, mm, ap) == Fmt02(hh) \o <<":">> \o Fmt02(mm) \o <<" ">> \o ap

AM == <<"A", "M">>
PM == <<"P", "M">>

\* the list comprehension: ap outermost, then hh in [12] + range(1, 12), then mm
HOURS_OF_DAY ==
    [i \in 1..96 |->
        LET ap == IF i <= 48 THEN AM ELSE PM
            h  == ((i - 1) % 48) \div 4
            hh == IF h = 0 THEN 12 ELSE h
            mm == 15 * ((i - 1) % 4)
        IN  HourLabel(hh, mm, ap)]

HourLabels == {HOURS_OF_DAY[i] : i \in 1..96}

(***************************************************************************)
(* datetime: a naive timestamp.  day counts days from a Monday, so that    *)
(* weekday() is day % 7.                                                   *)
(***************************************************************************)
DateTime(day, hour, minute, second) ==
    [day |-> day, hour |-> hour, minute |-> minute, second |-> second]

Weekday(d) == d.day % 7

\* dt + timedelta(days=n)
PlusDays(d, n) == [d EXCEPT !.day = @ + n]

\* seconds since day 0, to compare and subtract timestamps
Seconds(d) == ((d.day * 24 + d.hour) * 60 + d.minute) * 60 + d.second

\* CarbonCycle._next_weekday
NextWeekdayBug(d, weekday) ==
    LET days_ahead == weekday - Weekday(d)
    IN  PlusDays(d, IF days_ahead < 0 THEN days_ahead + 7 ELSE days_ahead)

_next_weekday(d, weekday) ==
    LET days_ahead == weekday - Weekday(d)
    IN  PlusDays(d, IF days_ahead <= 0 THEN days_ahead + 7 ELSE days_ahead)

\* the hour _get_dt computes from the label's hour and AM/PM
Hour24(hour, apm) ==
    IF apm = PM
    THEN IF hour + 12 > 23 THEN hour + 12 - 24 ELSE hour + 12
    ELSE hour

\* CarbonCycle._get_dt, with datetime.today() as the parameter today
_get_dt(day_of_week, time, today) ==
    LET parts    == Split(time, " ")
        apm      == parts[2]
        hm       == Split(parts[1], ":")
        hour     == Hour24(ParseInt(hm[1]), apm)
        minute   == ParseInt(hm[2])
        n        == [today EXCEPT !.second = 0]
        tomorrow == PlusDays(n, 1)
        nw       == _next_weekday(tomorrow, DAYS_OF_WEEK[day_of_week])
    IN  [nw EXCEPT !.hour = hour, !.minute = minute]

\* strftime's %a
AbbrDay == << <<"M", "o", "n">>, <<"T", "u", "e">>, <<"W", "e", "d">>, <<"T", "h", "u">>,
              <<"F", "r", "i">>, <<"S", "a", "t">>, <<"S", "u", "n">> >>

\* dt.strftime("%a %I:%M %p")
DayLabel(d) ==
    LET h12 == IF d.hour % 12 = 0 THEN 12 ELSE d.hour % 12
    IN  AbbrDay[Weekday(d) + 1] \o <<" ">> \o Fmt02(h12) \o <<":">> \o Fmt02(d.minute)
        \o <<" ">> \o (IF d.hour < 12 THEN AM ELSE PM)

(***************************************************************************)
(* Exact arithmetic for the unit registry's quantities.  A natural number  *)
(* is its sequence of base-10000 digits, least significant first, with no  *)
(* leading zero digit; a magnitude is a fraction <<numerator, denominator>>*)
(* of such numbers.  The code's floats are modelled by these exact values. *)
(***************************************************************************)
\* the value of an expression, bound once: The({F(v) : v \in {e}}) is F(e)
The(S) == CHOOSE r \in S : TRUE

RECURSIVE BigOf(_)
BigOf(n) == IF n = 0 THEN <<>> ELSE <<n % 10000>> \o BigOf(n \div 10000)

RECURSIVE BAddC(_, _, _)
BAddC(a, b, c) ==
    IF a = <<>> /\ b = <<>> THEN (IF c = 0 THEN <<>> ELSE <<c>>)
    ELSE The({<<x % 10000>> \o BAddC(IF a = <<>> THEN <<>> ELSE Tail(a),
                                     IF b = <<>> THEN <<>> ELSE Tail(b), x \div 10000) :
              x \in {(IF a = <<>> THEN 0 ELSE a[1]) + (IF b = <<>> THEN 0 ELSE b[1]) + c}})

BAdd(a, b) == BAddC(a, b, 0)

RECURSIVE BMulD(_, _, _)
BMulD(a, d, c) ==
    IF a = <<>> THEN (IF c = 0 THEN <<>> ELSE <<c>>)
    ELSE The({<<x % 10000>> \o BMulD(Tail(a), d, x \div 10000) : x \in {a[1] * d + c}})

RECURSIVE BMul(_, _)
BMul(a, b) ==
    IF a = <<>> \/ b = <<>> THEN <<>>
    ELSE The({BAdd(m, IF rest = <<>> THEN <<>> ELSE <<0>> \o rest) :
              m \in {IF b[1] = 0 THEN <<>> ELSE BMulD(a, b[1], 0)},
              rest \in {BMul(a, Tail(b))}})

\* a mod p and a div p for a small p (at most 10000), from the top digit down
RECURSIVE BModFrom(_, _, _, _)
BModFrom(a, i, r, p) ==
    IF i = 0 THEN r ELSE BModFrom(a, i - 1, (r * 10000 + a[i]) % p, p)

BMod(a, p) == BModFrom(a, Len(a), 0, p)

RECURSIVE BDivFrom(_, _, _, _)
BDivFrom(a, i, r, p) ==
    IF i = 0 THEN <<>>
    ELSE Append(BDivFrom(a, i - 1, (r * 10000 + a[i]) % p, p), (r * 10000 + a[i]) \div p)

BDiv(a, p) ==
    The({IF q # <<>> /\ q[Len(q)] = 0 THEN SubSeq(q, 1, Len(q) - 1) ELSE q :
         q \in {BDivFrom(a, Len(a), 0, p)}})

\* the factors cancelled from a fraction: powers first, to cancel in few steps
SmallFactors == <<10000, 16, 2, 81, 3, 625, 5, 7, 11, 13, 17, 19, 43, 71, 127, 337>>

RECURSIVE CancelBy(_, _)
CancelBy(v, p) ==
    IF BMod(v[1], p) = 0 /\ BMod(v[2], p) = 0
    THEN The({CancelBy(y, p) : y \in {<<BDiv(v[1], p), BDiv(v[2], p)>>}})
    ELSE v

RECURSIVE CancelAll(_, _)
CancelAll(v, i) ==
    IF i > Len(SmallFactors) THEN v
    ELSE The({CancelAll(y, i + 1) : y \in {CancelBy(v, SmallFactors[i])}})

\* a fraction with the small common factors of its two parts cancelled
RNorm(x) == The({IF v[1] = <<>> THEN <<<<>>, <<1>>>> ELSE CancelAll(v, 1) : v \in {x}})

R(n, d) == RNorm(<<BigOf(n), BigOf(d)>>)
RMul(x, y) == The({RNorm(<<BMul(a[1], b[1]), BMul(a[2], b[2])>>) : a \in {x}, b \in {y}})
RDiv(x, y) == The({RNorm(<<BMul(a[1], b[2]), BMul(a[2], b[1])>>) : a \in {x}, b \in {y}})
RAdd(x, y) ==
    The({RNorm(<<BAdd(BMul(a[1], b[2]), BMul(b[1], a[2])), BMul(a[2], b[2])>>) :
         a \in {x}, b \in {y}})
REq(x, y)  == The({BMul(a[1], b[2]) = BMul(b[1], a[2]) : a \in {x}, b \in {y}})
RIsZero(x) == x[1] = <<>>

(***************************************************************************)
(* The unit registry (pint.UnitRegistry): each unit's size in SI base      *)
(* units, as the registry's definitions give it.  A quantity is a          *)
(* magnitude m in the unit num / den ("1": no unit).                       *)
(***************************************************************************)
Inch == RMul(RDiv(R(1, 1), R(36, 1)), R(9144, 10000))      \* yard / 36, yard = 0.9144 m

UnitSize(u) ==
    CASE u = "1"               -> R(1, 1)
      [] u = "meter"           -> R(1, 1)
      [] u = "kilometer"       -> R(1000, 1)
      [] u = "mile"            -> RMul(R(1760, 1), R(9144, 10000))         \* 1760 yard
      [] u = "second"          -> R(1, 1)
      [] u = "hour"            -> R(3600, 1)
      [] u = "liter"           -> R(1, 1000)                                \* decimeter ** 3
      [] u = "gallon"          -> RMul(R(231, 1), RMul(Inch, RMul(Inch, Inch))) \* 231 cubic_inch
      [] u = "imperial_gallon" -> RMul(R(8, 1), RMul(R(56826125, 100000), R(1, 1000000))) \* 8 imperial_pint
      [] u = "pound"           -> R(45359237, 100000000)                    \* kilogram

UnitDim(u) ==
    CASE u = "1" -> "1"
      [] u \in {"meter", "kilometer", "mile"} -> "length"
      [] u \in {"second", "hour"} -> "time"
      [] u \in {"liter", "gallon", "imperial_gallon"} -> "volume"
      [] u = "pound" -> "mass"

Quantity(m, num, den) == [m |-> m, num |-> num, den |-> den]

\* Quantity.to: the magnitude in the unit num / den (a DimensionalityError otherwise)
To(q, num, den) ==
    IF UnitDim(q.num) = UnitDim(num) /\ UnitDim(q.den) = UnitDim(den)
    THEN Quantity(RMul(q.m, RDiv(RDiv(UnitSize(q.num), UnitSize(q.den)),
                                 RDiv(UnitSize(num), UnitSize(den)))), num, den)
    ELSE Quantity(R(0, 1), "DimensionalityError", "DimensionalityError")

CO2_PER_GALLON == R(1960, 100)

\* self.ureg(EFFICIENCY_UNITS[option]): the quantity the unit string parses to
EFFICIENCY_UNITS ==
    [o \in {"mpg (US)", "mpg (imp)", "km/L", "L/100 km"} |->
        CASE o = "mpg (US)"  -> Quantity(R(1, 1), "mile", "gallon")
          [] o = "mpg (imp)" -> Quantity(R(1, 1), "mile", "imperial_gallon")
          [] o = "km/L"      -> Quantity(R(1, 1), "kilometer", "liter")
          [] o = "L/100 km"  -> Quantity(R(100, 1), "kilometer", "liter")]

\* self.ureg(IDLING_EFFICIENCY_UNITS[option])
IDLING_EFFICIENCY_UNITS ==
    [o \in {"gal/hr (US)", "gal/hr (imp)", "L/hr"} |->
        CASE o = "gal/hr (US)"  -> Quantity(R(1, 1), "gallon", "hour")
          [] o = "gal/hr (imp)" -> Quantity(R(1, 1), "imperial_gallon", "hour")
          [] o = "L/hr"         -> Quantity(R(1, 1), "liter", "hour")]

\* _trigger_update: the efficiency quantity from the two fuel-economy widgets
EfficiencyNoInversion(value, units) ==
    LET u == EFFICIENCY_UNITS[units]
    IN  Quantity(RMul(value, u.m), u.num, u.den)

Efficiency(value, units) ==
    LET u == EFFICIENCY_UNITS[units]
    IN  IF units = "L/100 km"
        THEN Quantity(RDiv(u.m, value), u.num, u.den)
        ELSE Quantity(RMul(value, u.m), u.num, u.den)

\* _trigger_update: the idling quantity from the two idling widgets
IdlingEfficiency(value, units) ==
    LET u == IDLING_EFFICIENCY_UNITS[units]
    IN  Quantity(RMul(value, u.m), u.num, u.den)

\* CarbonCycle._calculate_emissions
_calculate_emissions(distance, idle_time, efficiency, idling_efficiency) ==
    LET travel_gallons_used ==
            RDiv(To(distance, "mile", "1").m, To(efficiency, "mile", "gallon").m)
        idle_gallons_used ==
            RMul(To(idle_time, "hour", "1").m, To(idling_efficiency, "gallon", "hour").m)
    IN  Quantity(RMul(RAdd(travel_gallons_used, idle_gallons_used), CO2_PER_GALLON),
                 "pound", "1")

\* _trigger_update: the emissions of one leg from a cached (distance, idle_time)
LegEmissions(distance, idle_time, eff_value, eff_units, idl_value, idl_units) ==
    _calculate_emissions(Quantity(distance, "meter", "1"),
                         Quantity(idle_time, "second", "1"),
                         Efficiency(eff_value, eff_units),
                         IdlingEfficiency(idl_value, idl_units))

(***************************************************************************)
(* The dashboard.  The model has the weekday widgets of NumDays days, from *)
(* Friday on (Friday's checkbox starts ticked, Saturday's and Sunday's     *)
(* start unticked), sliders that offer the two default times, and address  *)
(* inputs that take the values of Homes and Works.                         *)
(***************************************************************************)
NumDays == 2
MaxPasses == 2      \* widget events of one process after view()
MaxRuns == 2        \* processes started

ModelDays == [i \in 1..NumDays |-> DayNames[4 + i]]

DefaultLeaveHome == HOURS_OF_DAY[33]        \* "08:00 AM"
DefaultLeaveWork == HOURS_OF_DAY[71]        \* "05:30 PM"
ModelTimes == {DefaultLeaveHome, DefaultLeaveWork}

DefaultHome == "Natural History Building, Urbana, IL"
DefaultWork == "Natural Resources Building, Urbana, IL"
Homes == {DefaultHome, "1 Main St"}
Works == {DefaultWork}

\* what the routing service may answer: (distance in m, duration in traffic in s)
Samples == {<<16093, 0>>, <<24140, 600>>}
Fail == <<>>
Outcomes == Samples \cup {Fail}

\* the automobile widgets' initial values
DefaultEfficiency == R(25, 1)
DefaultEfficiencyUnits == "mpg (US)"
DefaultIdling == R(3, 10)
DefaultIdlingUnits == "gal/hr (US)"

\* the emissions of a leg with the sample s, at the automobile widgets' values
SampleEmissions ==
    [s \in Samples |->
        LegEmissions(R(s[1], 1), R(s[2], 1), DefaultEfficiency, DefaultEfficiencyUnits,
                     DefaultIdling, DefaultIdlingUnits).m]

\* day.startswith("S"), for the names of DAYS_OF_WEEK
StartsWithS(day) == day \in {"Saturday", "Sunday"}

\* _populate_address_column, _populate_weekday_column: the widgets' initial values
DefaultWidgets ==
    [home |-> DefaultHome,
     work |-> DefaultWork,
     need_commute |-> [i \in 1..NumDays |-> ~StartsWithS(ModelDays[i])],
     leave_home |-> [i \in 1..NumDays |-> DefaultLeaveHome],
     leave_work |-> [i \in 1..NumDays |-> DefaultLeaveWork]]

EmptyDict == <<>>

\* d[k] = v for a dict d
DictPut(d, k, v) == [x \in DOMAIN d \cup {k} |-> IF x = k THEN v ELSE d[x]]

\* d[k] = v for a dict kept as the sequence of its (key, value) pairs in insertion order
RECURSIVE OrderedPut(_, _, _)
OrderedPut(d, k, v) ==
    IF d = <<>> THEN <<<<k, v>>>>
    ELSE IF d[1][1] = k THEN <<<<k, v>>>> \o Tail(d)
    ELSE <<d[1]>> \o OrderedPut(Tail(d), k, v)

\* self.loc_label
LocLabel(home, work) == home \o " " \o work

\* the (day_of_week, time) pairs the two loops of _trigger_update visit, in order
RECURSIVE SlotsFrom(_, _)
SlotsFrom(w, i) ==
    IF i > NumDays THEN <<>>
    ELSE (IF w.need_commute[i]
          THEN <<<<ModelDays[i], w.leave_home[i]>>, <<ModelDays[i], w.leave_work[i]>>>>
          ELSE <<>>) \o SlotsFrom(w, i + 1)

Slots(w) == SlotsFrom(w, 1)

\* the cache test of _trigger_update
CacheHitWrongKey(cache, loc_label, day_label) ==
    /\ loc_label \in DOMAIN cache
    /\ day_label \in DOMAIN cache[loc_label]
    /\ \A ll \in DOMAIN cache : day_label \in DOMAIN cache[ll]

CacheHit(cache, loc_label, day_label) == day_label \in DOMAIN cache[loc_label]

\* the cache store of _trigger_update
CacheStore(cache, loc_label, day_label, sample) ==
    DictPut(cache, loc_label, DictPut(cache[loc_label], day_label, sample))

\* one iteration of the inner loop of _trigger_update, for the slot's label and
\* the routing service's answer to a call: the pass st after it
SlotStep(st, a, loc_label, day_label, answer) ==
    IF CacheHit(st.locs, loc_label, day_label)
    THEN [st EXCEPT !.distance = <<st.locs[loc_label][day_label][1]>>,
                    !.dt_emissions = OrderedPut(@, day_label,
                                        a.car[st.locs[loc_label][day_label]])]
    ELSE IF answer = Fail
    THEN [st EXCEPT !.status = "RoutingError",
                    !.calls = Append(@, <<a.widgets.home, a.widgets.work, day_label>>)]
    ELSE [st EXCEPT !.locs = CacheStore(@, loc_label, day_label, answer),
                    !.calls = Append(@, <<a.widgets.home, a.widgets.work, day_label>>),
                    !.fetched = @ \cup {<<a.widgets.home, a.widgets.work, day_label>>},
                    !.distance = <<answer[1]>>,
                    !.dt_emissions = OrderedPut(@, day_label, a.car[answer])]

\* The loops of _trigger_update over slots[i..]: st is the pass so far, resp the
\* routing service's answers to this pass's calls, in the order of the calls.
\* An exception of _call_gmap ends the loops.
RECURSIVE RunSlots(_, _, _, _, _, _)
RunSlots(slots, i, st, a, resp, today) ==
    IF i > Len(slots) \/ st.status # "ok" THEN st
    ELSE The({RunSlots(slots, i + 1, st2, a, resp, today) :
              st2 \in {The({SlotStep(st, a, loc_label, day_label,
                                     IF Len(st.calls) < Len(resp)
                                     THEN resp[Len(st.calls) + 1] ELSE Fail) :
                            loc_label \in {LocLabel(a.widgets.home, a.widgets.work)},
                            day_label \in {DayLabel(_get_dt(slots[i][1], slots[i][2],
                                                            today))}})}})

RECURSIVE SumValues(_)
SumValues(d) == IF d = <<>> THEN R(0, 1) ELSE RAdd(d[1][2], SumValues(Tail(d)))

\* the file write of _trigger_update
WriteFileAlways(f, cache) == [exists |-> TRUE, data |-> cache]

WriteFile(f, cache) == IF ~f.exists THEN [exists |-> TRUE, data |-> cache] ELSE f

\* one row of the weekday summary: day, time and the cached idle time
SummaryRow(day_label, cache, loc_label) ==
    <<Split(day_label, " ")[1],
      SubSeq(day_label, Len(Split(day_label, " ")[1]) + 2, Len(day_label)),
      cache[loc_label][day_label][2]>>

\* num_days of _format_summary
NumDaysOf(dt_emissions) == Len(dt_emissions) \div 2

\* CarbonCycle._format_summary: the panes after it, or the exception it raises
_format_summary(origin, destination, dt_emissions, cache, loc_label, old) ==
    The({IF num_days = 0 THEN [status |-> "ZeroDivisionError", panes |-> old]
         ELSE The({[status |-> "ok",
                    panes |->
                      [old EXCEPT
                         !.weekday_summary =
                            [i \in 1..Len(dt_emissions) |->
                                SummaryRow(dt_emissions[i][1], cache, loc_label)],
                         !.emission_summary =
                            <<[origin |-> origin, destination |-> destination,
                               num_days |-> num_days,
                               one_way_emissions |-> one_way_emissions,
                               round_trip_emissions |-> RMul(one_way_emissions, R(2, 1)),
                               week_emissions |-> week_emissions,
                               month_emissions |-> RMul(R(4, 1), week_emissions),
                               year_emissions |-> RMul(R(52, 1), week_emissions)]>>]] :
                   one_way_emissions \in {RDiv(RDiv(week_emissions, R(num_days, 1)),
                                               R(2, 1))}}) :
         num_days \in {NumDaysOf(dt_emissions)},
         week_emissions \in {SumValues(dt_emissions)}})

\* what a pass records of itself
PassRecord(st, w, status, wrote) ==
    [status |-> status, calls |-> st.calls, wrote |-> wrote,
     active |-> Cardinality({i \in 1..NumDays : w.need_commute[i]}),
     legs |-> Len(st.dt_emissions),
     schedule |-> Slots(w), home |-> w.home, work |-> w.work]

\* _trigger_update after its loops: the file write, then the unbound distance
\* or _format_summary
AfterLoopsWriteAnyway(a, st, w, panes0) ==
    The({[a EXCEPT !.locs = st.locs, !.fetched = st.fetched, !.file = file1,
                   !.panes = sum.panes,
                   !.last = PassRecord(st, w, sum.status, file1 # a.file)] :
         file1 \in {WriteFile(a.file, st.locs)},
         sum \in {IF st.status # "ok"
                  THEN [status |-> st.status, panes |-> panes0]
                  ELSE IF st.distance = <<>>
                  THEN [status |-> "UnboundLocalError", panes |-> panes0]
                  ELSE _format_summary(w.home, w.work, st.dt_emissions, st.locs,
                                       LocLabel(w.home, w.work), panes0)}})

AfterLoops(a, st, w, panes0) ==
    IF st.status # "ok"
    THEN [a EXCEPT !.locs = st.locs, !.fetched = st.fetched, !.panes = panes0,
                   !.last = PassRecord(st, w, st.status, FALSE)]
    ELSE The({[a EXCEPT !.locs = st.locs, !.fetched = st.fetched, !.file = file1,
                        !.panes = sum.panes,
                        !.last = PassRecord(st, w, sum.status, file1 # a.file)] :
              file1 \in {WriteFile(a.file, st.locs)},
              sum \in {IF st.distance = <<>>
                       THEN [status |-> "UnboundLocalError", panes |-> panes0]
                       ELSE _format_summary(w.home, w.work, st.dt_emissions, st.locs,
                                            LocLabel(w.home, w.work), panes0)}})

\* the first lines of _trigger_update: self.locs with the pair's dict in it
WithLocLabelReset(cache, loc_label) == DictPut(cache, loc_label, EmptyDict)

WithLocLabel(cache, loc_label) ==
    IF loc_label \in DOMAIN cache THEN cache ELSE DictPut(cache, loc_label, EmptyDict)

\* CarbonCycle._trigger_update, from the state a: the state after it.  a.last
\* records what the pass did.
_trigger_update(a, resp, today) ==
    The({AfterLoops(a, st, a.widgets,
                    [a.panes EXCEPT !.map_html = <<a.widgets.home, a.widgets.work>>]) :
         st \in {RunSlots(Slots(a.widgets), 1,
                          [locs |-> WithLocLabel(a.locs,
                                                 LocLabel(a.widgets.home, a.widgets.work)),
                           dt_emissions |-> <<>>, calls |-> <<>>,
                           fetched |-> a.fetched, distance |-> <<>>, status |-> "ok"],
                          a, resp, today)}})

\* the number of routing calls the pass makes if every call is answered
Misses(a, today) ==
    LET loc_label == LocLabel(a.widgets.home, a.widgets.work)
        slots     == Slots(a.widgets)
    IN  Cardinality({DayLabel(_get_dt(slots[i][1], slots[i][2], today)) : i \in 1..Len(slots)}
                    \ (IF loc_label \in DOMAIN a.locs THEN DOMAIN a.locs[loc_label] ELSE {}))

(***************************************************************************)
(* Spec: one process after another of the dashboard.  Every widget event   *)
(* runs _trigger_update to its end (the server is single-threaded); the    *)
(* routing service answers each call with a sample or fails.               *)
(***************************************************************************)
\* the variables of the other two specifications, at rest
EmIdle == /\ emArgs = <<>>
          /\ emOut = <<>>

DtIdle == /\ now = DateTime(0, 0, 0, 0)
          /\ dtArgs = <<>>
          /\ dt = <<>>

NoPanes == [map_html |-> <<>>, emission_summary |-> <<>>, weekday_summary |-> <<>>]

NoPass == [status |-> "none", calls |-> <<>>, wrote |-> FALSE, active |-> 0, legs |-> 0,
           schedule |-> <<>>, home |-> "", work |-> ""]

\* CarbonCycle.__init__: self.locs of a new process
InitEmptyCache(f) == EmptyDict

__init__(f) == IF f.exists THEN f.data ELSE EmptyDict

\* the current moments at which passes run
PassNows == {DateTime(4, 23, 59, 59)}

AppIdle == /\ up = FALSE
           /\ widgets = DefaultWidgets
           /\ car = SampleEmissions
           /\ locs = EmptyDict
           /\ file = [exists |-> FALSE, data |-> EmptyDict]
           /\ panes = NoPanes
           /\ lastPass = NoPass
           /\ fetched = {}
           /\ counts = [passes |-> 0, writes |-> 0, runs |-> 1]

Init == AppIdle /\ DtIdle /\ EmIdle

\* one run of _trigger_update with the widgets at w
Pass(w) ==
    \E today \in PassNows :
      \E a0 \in {[widgets |-> w, car |-> car, locs |-> locs, file |-> file, panes |-> panes,
                  fetched |-> fetched, last |-> lastPass]} :
          \E resp \in [1..Misses(a0, today) -> Outcomes] :
            \E a1 \in {_trigger_update(a0, resp, today)} :
                /\ widgets' = w
                /\ locs' = a1.locs
                /\ file' = a1.file
                /\ panes' = a1.panes
                /\ fetched' = a1.fetched
                /\ lastPass' = a1.last
                /\ UNCHANGED car
                /\ counts' = [counts EXCEPT !.passes = @ + 1,
                                            !.writes = @ + (IF a1.last.wrote THEN 1 ELSE 0)]

\* view(): _add_interactivity triggers the first pass; an exception ends view()
View ==
    /\ ~up /\ lastPass.status = "none"
    /\ Pass(widgets)
    /\ up' = (lastPass'.status = "ok")
    /\ UNCHANGED <<dtVars, emVars>>

CanPass == up /\ counts.passes <= MaxPasses

\* a widget's watcher fires with no value changed (param.trigger)
Retrigger ==
    /\ CanPass
    /\ Pass(widgets)
    /\ UNCHANGED <<up, dtVars, emVars>>

\* the home or the work address is edited
SetAddress ==
    /\ CanPass
    /\ \E h \in Homes, k \in Works :
          /\ (h = widgets.home) # (k = widgets.work)
          /\ Pass([widgets EXCEPT !.home = h, !.work = k])
    /\ UNCHANGED <<up, dtVars, emVars>>

SetNeedCommute ==
    /\ CanPass
    /\ \E i \in 1..NumDays : Pass([widgets EXCEPT !.need_commute[i] = ~@])
    /\ UNCHANGED <<up, dtVars, emVars>>

SetLeaveHome ==
    /\ CanPass
    /\ \E i \in 1..NumDays :
          \E t \in ModelTimes \ {widgets.leave_home[i]} : Pass([widgets EXCEPT !.leave_home[i] = t])
    /\ UNCHANGED <<up, dtVars, emVars>>

SetLeaveWork ==
    /\ CanPass
    /\ \E i \in 1..NumDays :
          \E t \in ModelTimes \ {widgets.leave_work[i]} : Pass([widgets EXCEPT !.leave_work[i] = t])
    /\ UNCHANGED <<up, dtVars, emVars>>

\* the process ends and a new one starts: CarbonCycle() builds new widgets and panes
Restart ==
    /\ counts.runs < MaxRuns
    /\ lastPass.status # "none"
    /\ up' = FALSE
    /\ widgets' = DefaultWidgets
    /\ locs' = __init__(file)
    /\ panes' = NoPanes
    /\ lastPass' = NoPass
    /\ fetched' = {}
    /\ counts' = [passes |-> 0, writes |-> 0, runs |-> counts.runs + 1]
    /\ UNCHANGED <<car, file, dtVars, emVars>>

Next == \/ View
        \/ Retrigger
        \/ SetAddress
        \/ SetNeedCommute
        \/ SetLeaveHome
        \/ SetLeaveWork
        \/ Restart

Spec == Init /\ [][Next]_vars

(***************************************************************************)
(* Properties of the update pass, the cache and the pickle file.           *)
(***************************************************************************)
\* the elements of a sequence
Range(seq) == {seq[i] : i \in 1..Len(seq)}

\* the slot labels of a schedule, resolved at a moment of PassNows
LabelsOf(schedule) ==
    {DayLabel(_get_dt(schedule[i][1], schedule[i][2], today)) :
        i \in 1..Len(schedule), today \in PassNows}

\* whether the cache holds a sample for the key k = (origin, destination, label)
Holds(cache, k) ==
    /\ LocLabel(k[1], k[2]) \in DOMAIN cache
    /\ k[3] \in DOMAIN cache[LocLabel(k[1], k[2])]

\* C1: once _call_gmap has returned a sample for a key (origin, destination,
\* slot label) in a process, no later pass of that process calls _call_gmap for
\* that key, and no pass calls it twice for one key.
C1_NoSecondCall ==
    [][/\ \A k \in fetched : k \notin Range(lastPass'.calls)
       /\ \A i, j \in 1..Len(lastPass'.calls) :
             lastPass'.calls[i] = lastPass'.calls[j] => i = j]_vars

\* a completed pass that made calls for new slots and none for a slot of its
\* schedule that an earlier pass of the process had fetched
C1_Witness ==
    /\ lastPass.status = "ok"
    /\ lastPass.calls # <<>>
    /\ \E k \in fetched :
          /\ k \notin Range(lastPass.calls)
          /\ k[1] = lastPass.home /\ k[2] = lastPass.work
          /\ k[3] \in LabelsOf(lastPass.schedule)

\* C4 as claimed: a pass with no weekday marked "needs commute" ends with an
\* AggregationError.
C4_AsClaimed ==
    (lastPass.status # "none" /\ lastPass.active = 0)
        => lastPass.status = "AggregationError"

\* C5 as claimed: a pass whose lookups all succeed, with at least one weekday
\* marked, shows a summary whose num_days is the number of weekdays marked, sums
\* two legs per marked day, and has one_way = week / num_days / 2.
C5_AsClaimed ==
    (lastPass.status \in {"ok", "ZeroDivisionError"} /\ lastPass.active > 0)
        => /\ lastPass.status = "ok"
           /\ panes.emission_summary[1].num_days = lastPass.active
           /\ lastPass.legs = 2 * lastPass.active
           /\ REq(panes.emission_summary[1].one_way_emissions,
                  RDiv(RDiv(panes.emission_summary[1].week_emissions,
                            R(lastPass.active, 1)), R(2, 1)))

\* C6: a pass in which _call_gmap fails ends with that exception after calling
\* the failed key once; the cache has no sample for the failed key, the file
\* is as it was before the pass, and the emission and weekday summaries are
\* those shown before the pass.
C6_FailurePropagates ==
    [][lastPass'.status = "RoutingError"
        => /\ lastPass'.calls # <<>>
           /\ Cardinality({i \in 1..Len(lastPass'.calls) :
                 lastPass'.calls[i] = lastPass'.calls[Len(lastPass'.calls)]}) = 1
           /\ ~Holds(locs', lastPass'.calls[Len(lastPass'.calls)])
           /\ lastPass'.calls[Len(lastPass'.calls)] \notin fetched'
           /\ file' = file
           /\ ~lastPass'.wrote
           /\ panes'.emission_summary = panes.emission_summary
           /\ panes'.weekday_summary = panes.weekday_summary]_vars

\* a failed pass after a completed one, whose summaries are still shown
C6_Witness ==
    /\ lastPass.status = "RoutingError"
    /\ counts.passes >= 2
    /\ panes.emission_summary # <<>>
    /\ panes.weekday_summary # <<>>

\* C7: a process writes the file at most once; a write happens only in a pass
\* whose loops completed and that found the file absent, and stores self.locs;
\* a file that exists is never changed.
C7_WrittenAtMostOnce ==
    [][/\ file.exists => file' = file
       /\ file' # file => /\ ~file.exists
                          /\ counts'.runs = counts.runs
                          /\ counts.writes = 0 /\ counts'.writes = 1
                          /\ lastPass'.wrote
                          /\ lastPass'.status # "RoutingError"
                          /\ file' = [exists |-> TRUE, data |-> locs']
       /\ counts'.writes <= 1]_vars

\* the file written by an earlier pass, and left alone by a later pass that
\* added samples to the cache
C7_Witness ==
    /\ counts.writes = 1
    /\ counts.passes >= 2
    /\ file.exists
    /\ lastPass.calls # <<>> /\ lastPass.status = "ok"
    /\ locs # file.data

\* C8: a new process starts with self.locs equal to the content of the file
\* (empty when there is none), and no pass calls _call_gmap for a key the file
\* holds.
C8_SeededFromSnapshot ==
    [][/\ counts'.runs # counts.runs
            => locs' = (IF file.exists THEN file.data ELSE EmptyDict)
       /\ \A k \in Range(lastPass'.calls) : ~(file.exists /\ Holds(file.data, k))]_vars

\* in a second process, a completed pass all of whose slots came from the file
C8_Witness ==
    /\ counts.runs = 2
    /\ counts.passes = 1
    /\ lastPass.status = "ok"
    /\ lastPass.legs >= 2
    /\ lastPass.calls = <<>>
    /\ fetched = {}
    /\ locs = file.data

\* C10: within a process, every entry of self.locs stays, with its value, over
\* every pass.
C10_CacheOnlyGrows ==
    [][counts'.runs = counts.runs
        => \A ll \in DOMAIN locs :
              /\ ll \in DOMAIN locs'
              /\ \A dl \in DOMAIN locs[ll] :
                    /\ dl \in DOMAIN locs'[ll]
                    /\ locs'[ll][dl] = locs[ll][dl]]_vars

\* a failed pass for one pair of addresses, with the samples of another pair
\* still in the cache
C10_Witness ==
    /\ lastPass.status = "RoutingError"
    /\ \E ll \in DOMAIN locs :
          /\ ll # LocLabel(lastPass.home, lastPass.work)
          /\ locs[ll] # EmptyDict
    /\ locs[LocLabel(lastPass.home, lastPass.work)] # EmptyDict

(***************************************************************************)
(* SpecDt: _get_dt applied to every weekday and every selectable label,    *)
(* at current moments of every weekday.                                    *)
(***************************************************************************)
\* the clock times of the current moments tried: (hour, minute, second)
NowClocks == {<<0, 0, 0>>, <<8, 0, 30>>, <<17, 30, 0>>, <<23, 59, 59>>}

Nows == {DateTime(d, c[1], c[2], c[3]) : d \in 0..6, c \in NowClocks}

InitDt == /\ AppIdle
          /\ EmIdle
          /\ now \in Nows
          /\ \E w \in DOMAIN DAYS_OF_WEEK, i \in DOMAIN HOURS_OF_DAY :
                dtArgs = <<[day_of_week |-> w, time |-> HOURS_OF_DAY[i]]>>
          /\ dt = <<>>

GetDt == /\ dt = <<>>
         /\ dt' = <<_get_dt(dtArgs[1].day_of_week, dtArgs[1].time, now)>>
         /\ UNCHANGED <<now, dtArgs, emVars, appVars>>

NextDt == GetDt

SpecDt == InitDt /\ [][NextDt]_vars

SecondsPerDay == 24 * 60 * 60

\* C2 as claimed: the resolved timestamp is strictly later than now and at most
\* 7 days after now.
C2_AsClaimed ==
    dt # <<>> => /\ Seconds(dt[1]) > Seconds(now)
                 /\ Seconds(dt[1]) - Seconds(now) <= 7 * SecondsPerDay

\* C2 amended: the resolved timestamp is strictly later than now and less than
\* 9 days after now; its date is 2 to 8 days after today's date.
C2_FutureWithinNineDays ==
    dt # <<>> => /\ Seconds(dt[1]) > Seconds(now)
                 /\ Seconds(dt[1]) - Seconds(now) < 9 * SecondsPerDay
                 /\ dt[1].day - now.day \in 2..8

\* a resolution that lands more than 7 days after now
C2_Witness ==
    /\ dt # <<>>
    /\ Seconds(dt[1]) - Seconds(now) > 7 * SecondsPerDay

\* what a selected label "hh:mm AM/PM" means on the 24-hour clock
ClaimedHour(hh, apm) ==
    IF hh = 12 THEN (IF apm = AM THEN 0 ELSE 12)
    ELSE IF apm = PM THEN hh + 12 ELSE hh

\* C3 as claimed: the hour of the resolved timestamp follows the 12-hour to
\* 24-hour rule (12 AM is 0, 12 PM is 12, other PM hours add 12), and the slot
\* label formatted from the timestamp shows the clock time that was selected.
C3_AsClaimed ==
    dt # <<>> =>
        LET parts == Split(dtArgs[1].time, " ")
            hh    == ParseInt(Split(parts[1], ":")[1])
        IN  /\ dt[1].hour = ClaimedHour(hh, parts[2])
            /\ SubSeq(DayLabel(dt[1]), 5, 12) = dtArgs[1].time
(***************************************************************************)
(* SpecEm: the emissions of one leg, for distances (m), idle durations (s),*)
(* fuel economies and idling rates drawn from bounded sets, in every unit  *)
(* family of the two selects.                                              *)
(***************************************************************************)
EmDistances == {R(0, 1), R(1000, 1), R(1609344, 100), R(24140, 1)}
EmIdleTimes == {R(0, 1), R(600, 1), R(3600, 1)}
EmEfficiencies == {R(250, 10), R(80, 10), R(301, 10)}     \* FloatInput, step 0.1
EmIdlingRates == {R(30, 100), R(125, 100)}                \* FloatInput, step 0.01

InitEm ==
    /\ AppIdle
    /\ DtIdle
    /\ \E d \in EmDistances, s \in EmIdleTimes, e \in EmEfficiencies,
          eu \in DOMAIN EFFICIENCY_UNITS, r \in EmIdlingRates,
          ru \in DOMAIN IDLING_EFFICIENCY_UNITS :
            emArgs = <<[distance |-> d, idle_time |-> s, efficiency |-> e,
                        efficiency_units |-> eu, idling_efficiency |-> r,
                        idling_efficiency_units |-> ru]>>
    /\ emOut = <<>>

CalculateEmissions ==
    /\ emOut = <<>>
    /\ emOut' = <<LegEmissions(emArgs[1].distance, emArgs[1].idle_time,
                               emArgs[1].efficiency, emArgs[1].efficiency_units,
                               emArgs[1].idling_efficiency,
                               emArgs[1].idling_efficiency_units)>>
    /\ UNCHANGED <<emArgs, dtVars, appVars>>

NextEm == CalculateEmissions

SpecEm == InitEm /\ [][NextEm]_vars

\* The claim's own conversions: a mile in metres, the two gallons in litres.
MeterPerMile == R(1609344, 1000)
LiterPerGallon == RAdd(R(3, 1), R(785411784, 1000000000))
LiterPerImperialGallon == R(454609, 100000)

\* the fuel economy in miles per (US) gallon, by unit family
ClaimedMpg(e, family) ==
    LET kmlToMpg(x) == RDiv(RMul(x, LiterPerGallon), RDiv(MeterPerMile, R(1000, 1)))
    IN  CASE family = "mpg (US)"  -> e
          [] family = "mpg (imp)" -> RMul(e, RDiv(LiterPerGallon, LiterPerImperialGallon))
          [] family = "km/L"      -> kmlToMpg(e)
          [] family = "L/100 km"  -> kmlToMpg(RDiv(R(100, 1), e))

\* the idling rate in (US) gallons per hour, by unit family
ClaimedGph(r, family) ==
    CASE family = "gal/hr (US)"  -> r
      [] family = "gal/hr (imp)" -> RMul(r, RDiv(LiterPerImperialGallon, LiterPerGallon))
      [] family = "L/hr"         -> RDiv(r, LiterPerGallon)

ClaimedEmissions(a) ==
    LET travel_fuel == RDiv(RDiv(a.distance, MeterPerMile),
                            ClaimedMpg(a.efficiency, a.efficiency_units))
        idle_fuel   == RMul(RDiv(a.idle_time, R(3600, 1)),
                            ClaimedGph(a.idling_efficiency, a.idling_efficiency_units))
    IN  RMul(RAdd(travel_fuel, idle_fuel), R(1960, 100))

\* 10 miles at 25 mpg (US) with zero idle time
C9_Scenario(a) ==
    /\ REq(a.distance, R(1609344, 100))
    /\ REq(a.efficiency, R(25, 1)) /\ a.efficiency_units = "mpg (US)"
    /\ RIsZero(a.idle_time)

\* C9: the emissions of a leg are (distance in miles / fuel economy in miles
\* per gallon + idle duration in hours x idling rate in gallons per hour) x
\* 19.60 lb, an 'L/100 km' fuel economy being 100 km per litre divided by the
\* entered magnitude; 10 miles at 25 mpg (US) with no idle time give 7.84 lb.
C9_EmissionsFormula ==
    emOut # <<>> =>
        /\ emOut[1].num = "pound" /\ emOut[1].den = "1"
        /\ REq(emOut[1].m, ClaimedEmissions(emArgs[1]))
        /\ C9_Scenario(emArgs[1]) => REq(emOut[1].m, R(784, 100))

\* the scenario's leg has been calculated, and a leg entered in L/100 km too
C9_Witness ==
    /\ emOut # <<>>
    /\ C9_Scenario(emArgs[1])
    /\ REq(emOut[1].m, R(784, 100))
====
